---- MODULE Spec2Model ----
(***************************************************************************)
(* Factur-X PDF XML editor: a model of the two Flask programs of the       *)
(* repository, src/app.py ("app") and src/facturx_editor.py ("editor").    *)
(*                                                                         *)
(* Byte strings are sequences of integers 0..255, Python str values are    *)
(* sequences of code points, attachment names are sequences of one-        *)
(* character strings.  A PDF is seen through PyMuPDF's embedded-file API   *)
(* only: it is the ordered list of its embedded entries [name, data].      *)
(* A job directory file is a sequence of length 0 (the file does not       *)
(* exist) or 1 (its content).                                              *)
(***************************************************************************)
EXTENDS Integers, Sequences, FiniteSets, TLC

VARIABLES
    impl,           \* which program serves the session: "app" or "editor"
    original_pdf,   \* job/original.pdf
    xml_name_txt,   \* job/xml_name.txt
    facturx_xml,    \* job/factur-x.xml, the working document
    outputs,        \* job/updated_<ts>.pdf files: a function ts -> PDF
    now,            \* the last datetime.now() a build read, in whole seconds
    flash,          \* the outcome reported by the last request
    req,            \* the last request served and its input
    verify_xml,     \* job/verify.xml (app.py only)
    builds,         \* what each successful build wrote: its out_path and PDF
    served,         \* the number of requests served
    call            \* a pure function under test: its input and result

vars == <<impl, original_pdf, xml_name_txt, facturx_xml, outputs, now,
          flash, req, verify_xml, builds, served, call>>

sessionVars == <<impl, original_pdf, xml_name_txt, facturx_xml, outputs, now,
                 flash, req, verify_xml, builds, served>>

(***************************************************************************)
(* Bounds of the model.                                                    *)
(***************************************************************************)
MaxNames == 3       \* embedded names in a selector input
MaxBytes == 4       \* bytes in a clean_xml input
NumKeys == 2        \* field map entries whose elements and values vary
MaxNodes == 2       \* varying elements in a document
MaxClock == 1       \* seconds the clock may advance in a session
MaxRequests == 5    \* requests served in a session

(***************************************************************************)
(* Generic helpers.                                                        *)
(***************************************************************************)
Missing == <<>>

File(content) == <<content>>

Exists(f) == Len(f) = 1

Content(f) == f[1]

SeqsUpTo(S, n) == UNION {[1..k -> S] : k \in 0..n}

RECURSIVE DropWhileIn(_, _)
\* str.lstrip(chars): drop the longest prefix made of members of chars
DropWhileIn(s, chars) ==
    IF s # <<>> /\ Head(s) \in chars THEN DropWhileIn(Tail(s), chars) ELSE s

RECURSIVE DropTrailingIn(_, _)
DropTrailingIn(s, chars) ==
    IF s # <<>> /\ s[Len(s)] \in chars
    THEN DropTrailingIn(SubSeq(s, 1, Len(s) - 1), chars)
    ELSE s

(***************************************************************************)
(* Attachment names: str.lower(), str.endswith(), the "in" substring test. *)
(***************************************************************************)
UpperChars == <<"A","B","C","D","E","F","G","H","I","J","K","L","M",
                "N","O","P","Q","R","S","T","U","V","W","X","Y","Z">>

LowerChars == <<"a","b","c","d","e","f","g","h","i","j","k","l","m",
                "n","o","p","q","r","s","t","u","v","w","x","y","z">>

LowerChar(c) ==
    IF \E i \in 1..Len(UpperChars) : UpperChars[i] = c
    THEN LowerChars[CHOOSE i \in 1..Len(UpperChars) : UpperChars[i] = c]
    ELSE c

lower(n) == [i \in 1..Len(n) |-> LowerChar(n[i])]

endswith(n, suffix) ==
    /\ Len(n) >= Len(suffix)
    /\ SubSeq(n, Len(n) - Len(suffix) + 1, Len(n)) = suffix

contains(n, sub) ==
    \E i \in 1..(Len(n) - Len(sub) + 1) : SubSeq(n, i, i + Len(sub) - 1) = sub

DotXml == <<".","x","m","l">>

Factur == <<"f","a","c","t","u","r">>

Zugferd == <<"z","u","g","f","e","r","d">>

Invoice == <<"i","n","v","o","i","c","e">>

IsXmlName(n) == endswith(lower(n), DotXml)

HasKeyword(n) == contains(lower(n), Factur) \/ contains(lower(n), Zugferd)

DefaultName == <<"f","a","c","t","u","r","-","x",".","x","m","l">>

\* names.index(x): the first position holding x
IndexOf(names, x) == CHOOSE i \in 1..Len(names) :
    names[i] = x /\ \A j \in 1..(i - 1) : names[j] # x

(***************************************************************************)
(* app.py extract_first_xml: the scan over the embedded names.             *)
(***************************************************************************)
NoAttachmentsMsg == "Aucune piece jointe trouvee dans le PDF."

NoXmlMsg == "Aucun attachement XML trouve dans le PDF."

NoName == <<>>

RECURSIVE ScanNamesNoBreak(_, _, _)
\* ScanNames with the break of line 234 left out
ScanNamesNoBreak(names, i, xml_name) ==
    IF i > Len(names) THEN xml_name
    ELSE IF IsXmlName(names[i])
         THEN ScanNamesNoBreak(names, i + 1, names[i])
         ELSE ScanNamesNoBreak(names, i + 1, xml_name)

RECURSIVE ScanNames(_, _, _)
\* the for loop of lines 230-234: xml_name is overwritten by every ".xml"
\* name met, and the loop stops at the first one holding a keyword
ScanNames(names, i, xml_name) ==
    IF i > Len(names) THEN xml_name
    ELSE IF IsXmlName(names[i])
         THEN IF HasKeyword(names[i]) THEN names[i]
              ELSE ScanNames(names, i + 1, names[i])
         ELSE ScanNames(names, i + 1, xml_name)

extract_first_xml(names) ==
    IF names = <<>>
    THEN [ok |-> FALSE, name |-> NoName, idx |-> 0, err |-> NoAttachmentsMsg]
    ELSE LET xml_name == ScanNames(names, 1, NoName)
         IN  IF xml_name = NoName
             THEN [ok |-> FALSE, name |-> NoName, idx |-> 0, err |-> NoXmlMsg]
             ELSE [ok |-> TRUE, name |-> xml_name,
                   idx |-> IndexOf(names, xml_name), err |-> ""]

(***************************************************************************)
(* facturx_editor.py find_facturx_xml.                                     *)
(***************************************************************************)
XmlIndices(names) == {i \in 1..Len(names) : IsXmlName(names[i])}

Min(S) == CHOOSE x \in S : \A y \in S : x <= y

find_facturx_xml(names) ==
    LET xmls == XmlIndices(names)
        keyed == {i \in xmls : HasKeyword(names[i])}
    IN  IF xmls = {}
        THEN [ok |-> FALSE, name |-> NoName, idx |-> 0]
        ELSE IF keyed # {}
             THEN [ok |-> TRUE, name |-> names[Min(keyed)], idx |-> Min(keyed)]
             ELSE [ok |-> TRUE, name |-> names[Min(xmls)], idx |-> Min(xmls)]

(***************************************************************************)
(* bytes.decode("utf-8", errors="ignore") and str.encode("utf-8").         *)
(* A malformed sequence is dropped up to (not including) the byte that     *)
(* breaks it, as CPython's decoder reports it to the error handler.        *)
(***************************************************************************)
IsCont(b) == b >= 128 /\ b <= 191

\* the number of continuation bytes lead byte b announces, -1 for no lead
Need(b) ==
    IF b < 128 THEN 0
    ELSE IF b >= 194 /\ b <= 223 THEN 1
    ELSE IF b >= 224 /\ b <= 239 THEN 2
    ELSE IF b >= 240 /\ b <= 244 THEN 3
    ELSE -1

\* the second byte's range depends on the lead (overlongs, surrogates, > 10FFFF)
SecondOK(b0, b1) ==
    IF b0 = 224 THEN b1 >= 160 /\ b1 <= 191
    ELSE IF b0 = 237 THEN b1 >= 128 /\ b1 <= 159
    ELSE IF b0 = 240 THEN b1 >= 144 /\ b1 <= 191
    ELSE IF b0 = 244 THEN b1 >= 128 /\ b1 <= 143
    ELSE IsCont(b1)

\* how many of the n announced continuation bytes after position i are there
ContRun(s, i, n) ==
    LET ok(j) == /\ i + j <= Len(s)
                 /\ IF j = 1 THEN SecondOK(s[i], s[i + 1]) ELSE IsCont(s[i + j])
        good == {k \in 0..n : \A j \in 1..k : ok(j)}
    IN  CHOOSE k \in good : \A m \in good : m <= k

CodePoint(s, i, n) ==
    IF n = 1 THEN (s[i] - 192) * 64 + (s[i + 1] - 128)
    ELSE IF n = 2
         THEN (s[i] - 224) * 4096 + (s[i + 1] - 128) * 64 + (s[i + 2] - 128)
         ELSE (s[i] - 240) * 262144 + (s[i + 1] - 128) * 4096
              + (s[i + 2] - 128) * 64 + (s[i + 3] - 128)

RECURSIVE DecodeFrom(_, _)
DecodeFrom(s, i) ==
    IF i > Len(s) THEN <<>>
    ELSE LET n == Need(s[i])
         IN  IF n = -1 THEN DecodeFrom(s, i + 1)
             ELSE IF n = 0 THEN <<s[i]>> \o DecodeFrom(s, i + 1)
             ELSE LET k == ContRun(s, i, n)
                  IN  IF k = n
                      THEN <<CodePoint(s, i, n)>> \o DecodeFrom(s, i + n + 1)
                      ELSE DecodeFrom(s, i + k + 1)

decode_ignore(raw) == DecodeFrom(raw, 1)

EncodeChar(c) ==
    IF c < 128 THEN <<c>>
    ELSE IF c < 2048 THEN <<192 + (c \div 64), 128 + (c % 64)>>
    ELSE IF c < 65536
         THEN <<224 + (c \div 4096), 128 + ((c \div 64) % 64), 128 + (c % 64)>>
         ELSE <<240 + (c \div 262144), 128 + ((c \div 4096) % 64),
                128 + ((c \div 64) % 64), 128 + (c % 64)>>

RECURSIVE encode(_)
encode(txt) ==
    IF txt = <<>> THEN <<>> ELSE EncodeChar(Head(txt)) \o encode(Tail(txt))

\* the characters "\ufeff\r\n\t " given to lstrip
StripChars == {65279, 13, 10, 9, 32}

BOM == <<239, 187, 191>>

(***************************************************************************)
(* facturx_editor.py clean_xml.                                            *)
(***************************************************************************)
\* clean_xml stripping the byte order mark first and the white space after
clean_xml_two_strips(raw) ==
    encode(DropWhileIn(DropWhileIn(decode_ignore(raw), {65279}),
                       {13, 10, 9, 32}))

clean_xml(raw) == encode(DropWhileIn(decode_ignore(raw), StripChars))

(***************************************************************************)
(* lxml's parser and serializer, on the XML this model writes documents    *)
(* in:                                                                     *)
(*     document ::= BOM? "<?xml?>"? ws* root ws*                           *)
(*     root     ::= "<R/>" | "<R>" element* "</R>"                         *)
(*     element  ::= "<" t "/>" | "<" t ">" text "</" t ">"                 *)
(* t is one lower-case letter, text a run of the letters "A" and "B".      *)
(* "<?xml?>" stands for the XML declaration, which the parser accepts at   *)
(* the very start only (after a byte order mark); white space may precede  *)
(* the root, and no white space may precede the declaration.  A parsed tree is the sequence of its elements *)
(* in document order, [tag, text], text <<>> for an element without text.  *)
(***************************************************************************)
XmlDecl == <<60, 63, 120, 109, 108, 63, 62>>

OpenRoot == <<60, 82, 62>>

CloseRoot == <<60, 47, 82, 62>>

EmptyRoot == <<60, 82, 47, 62>>

WsBytes == {32, 9, 13, 10}

TagBytes == 97..122

TextBytes == {65, 66}

StartsAt(s, i, tok) ==
    /\ i + Len(tok) - 1 <= Len(s)
    /\ SubSeq(s, i, i + Len(tok) - 1) = tok

RECURSIVE SkipIn(_, _, _)
\* the first position from i on whose byte is not in set
SkipIn(s, i, set) ==
    IF i <= Len(s) /\ s[i] \in set THEN SkipIn(s, i + 1, set) ELSE i

ParseFail == [ok |-> FALSE, tree |-> <<>>, next |-> 0]

RECURSIVE ParseElements(_, _, _)
ParseElements(s, i, acc) ==
    IF StartsAt(s, i, CloseRoot)
    THEN [ok |-> TRUE, tree |-> acc, next |-> i + Len(CloseRoot)]
    ELSE IF i + 3 <= Len(s) /\ s[i] = 60 /\ s[i + 1] \in TagBytes
    THEN LET t == s[i + 1]
         IN  IF StartsAt(s, i + 2, <<47, 62>>)
             THEN ParseElements(s, i + 4,
                                Append(acc, [tag |-> t, text |-> <<>>]))
             ELSE IF s[i + 2] = 62
             THEN LET j == SkipIn(s, i + 3, TextBytes)
                  IN  IF StartsAt(s, j, <<60, 47, t, 62>>)
                      THEN ParseElements(s, j + 4,
                               Append(acc, [tag |-> t,
                                            text |-> SubSeq(s, i + 3, j - 1)]))
                      ELSE ParseFail
             ELSE ParseFail
    ELSE ParseFail

\* etree.fromstring(data): ok is FALSE where lxml raises XMLSyntaxError
fromstring(data) ==
    LET i0 == IF StartsAt(data, 1, BOM) THEN 1 + Len(BOM) ELSE 1
        decl == StartsAt(data, i0, XmlDecl)
        i1 == IF decl THEN i0 + Len(XmlDecl) ELSE i0
        i2 == SkipIn(data, i1, WsBytes)
        root == IF StartsAt(data, i2, EmptyRoot)
                THEN [ok |-> TRUE, tree |-> <<>>, next |-> i2 + Len(EmptyRoot)]
                ELSE IF StartsAt(data, i2, OpenRoot)
                     THEN ParseElements(data, i2 + Len(OpenRoot), <<>>)
                     ELSE ParseFail
    IN  IF root.ok /\ SkipIn(data, root.next, WsBytes) = Len(data) + 1
        THEN [ok |-> TRUE, tree |-> root.tree]
        ELSE [ok |-> FALSE, tree |-> <<>>]

ElementBytes(e) ==
    IF e.text = <<>> THEN <<60, e.tag, 47, 62>>
    ELSE <<60, e.tag, 62>> \o e.text \o <<60, 47, e.tag, 62>>

RECURSIVE ElementsBytes(_)
ElementsBytes(tree) ==
    IF tree = <<>> THEN <<>>
    ELSE ElementBytes(Head(tree)) \o ElementsBytes(Tail(tree))

\* etree.tostring(root, xml_declaration=True, encoding='UTF-8')
tostring(tree) ==
    XmlDecl \o <<10>> \o
    (IF tree = <<>> THEN EmptyRoot
     ELSE OpenRoot \o ElementsBytes(tree) \o CloseRoot)

(***************************************************************************)
(* facturx_editor.py validate_xml: TRUE where it returns, FALSE where it   *)
(* raises.                                                                 *)
(***************************************************************************)
\* validate_xml that never raises
validate_xml_lenient(data) == TRUE

validate_xml(data) == fromstring(data).ok

(***************************************************************************)
(* app.py: the field map, as extract_invoice_data reads it (lines 73-104)  *)
(* and as update_invoice_xml writes it (lines 135-166).  Each path is the  *)
(* XPath of the source without its leading ".//".                          *)
(***************************************************************************)
DecodeMap == <<
    [key |-> "invoice_number",
     path |-> "rsm:ExchangedDocument/ram:ID"],
    [key |-> "invoice_date",
     path |-> "rsm:ExchangedDocument/ram:IssueDateTime/udt:DateTimeString"],
    [key |-> "due_date",
     path |-> "ram:SpecifiedTradePaymentTerms/ram:DueDateDateTime/udt:DateTimeString"],
    [key |-> "seller_name",
     path |-> "ram:ApplicableHeaderTradeAgreement/ram:SellerTradeParty/ram:Name"],
    [key |-> "seller_siren",
     path |-> "ram:ApplicableHeaderTradeAgreement/ram:SellerTradeParty/ram:SpecifiedLegalOrganization/ram:ID"],
    [key |-> "seller_vat",
     path |-> "ram:ApplicableHeaderTradeAgreement/ram:SellerTradeParty/ram:SpecifiedTaxRegistration/ram:ID"],
    [key |-> "seller_street",
     path |-> "ram:ApplicableHeaderTradeAgreement/ram:SellerTradeParty/ram:PostalTradeAddress/ram:LineOne"],
    [key |-> "seller_city",
     path |-> "ram:ApplicableHeaderTradeAgreement/ram:SellerTradeParty/ram:PostalTradeAddress/ram:CityName"],
    [key |-> "seller_postal_code",
     path |-> "ram:ApplicableHeaderTradeAgreement/ram:SellerTradeParty/ram:PostalTradeAddress/ram:PostcodeCode"],
    [key |-> "seller_country",
     path |-> "ram:ApplicableHeaderTradeAgreement/ram:SellerTradeParty/ram:PostalTradeAddress/ram:CountryID"],
    [key |-> "seller_fe_address",
     path |-> "ram:ApplicableHeaderTradeAgreement/ram:SellerTradeParty/ram:URIUniversalCommunication/ram:URIID"],
    [key |-> "buyer_name",
     path |-> "ram:ApplicableHeaderTradeAgreement/ram:BuyerTradeParty/ram:Name"],
    [key |-> "buyer_siren",
     path |-> "ram:ApplicableHeaderTradeAgreement/ram:BuyerTradeParty/ram:SpecifiedLegalOrganization/ram:ID"],
    [key |-> "buyer_vat",
     path |-> "ram:ApplicableHeaderTradeAgreement/ram:BuyerTradeParty/ram:SpecifiedTaxRegistration/ram:ID"],
    [key |-> "buyer_street",
     path |-> "ram:ApplicableHeaderTradeAgreement/ram:BuyerTradeParty/ram:PostalTradeAddress/ram:LineOne"],
    [key |-> "buyer_city",
     path |-> "ram:ApplicableHeaderTradeAgreement/ram:BuyerTradeParty/ram:PostalTradeAddress/ram:CityName"],
    [key |-> "buyer_postal_code",
     path |-> "ram:ApplicableHeaderTradeAgreement/ram:BuyerTradeParty/ram:PostalTradeAddress/ram:PostcodeCode"],
    [key |-> "buyer_country",
     path |-> "ram:ApplicableHeaderTradeAgreement/ram:BuyerTradeParty/ram:PostalTradeAddress/ram:CountryID"],
    [key |-> "buyer_fe_address",
     path |-> "ram:ApplicableHeaderTradeAgreement/ram:BuyerTradeParty/ram:URIUniversalCommunication/ram:URIID"],
    [key |-> "billing_name",
     path |-> "ram:ApplicableHeaderTradeDelivery/ram:ShipToTradeParty/ram:Name"],
    [key |-> "billing_street",
     path |-> "ram:ApplicableHeaderTradeDelivery/ram:ShipToTradeParty/ram:PostalTradeAddress/ram:LineOne"],
    [key |-> "billing_city",
     path |-> "ram:ApplicableHeaderTradeDelivery/ram:ShipToTradeParty/ram:PostalTradeAddress/ram:CityName"],
    [key |-> "billing_postal_code",
     path |-> "ram:ApplicableHeaderTradeDelivery/ram:ShipToTradeParty/ram:PostalTradeAddress/ram:PostcodeCode"],
    [key |-> "billing_country",
     path |-> "ram:ApplicableHeaderTradeDelivery/ram:ShipToTradeParty/ram:PostalTradeAddress/ram:CountryID"]
>>

EncodeMap == <<
    [key |-> "invoice_number",
     path |-> "rsm:ExchangedDocument/ram:ID"],
    [key |-> "invoice_date",
     path |-> "rsm:ExchangedDocument/ram:IssueDateTime/udt:DateTimeString"],
    [key |-> "due_date",
     path |-> "ram:SpecifiedTradePaymentTerms/ram:DueDateDateTime/udt:DateTimeString"],
    [key |-> "seller_name",
     path |-> "ram:ApplicableHeaderTradeAgreement/ram:SellerTradeParty/ram:Name"],
    [key |-> "seller_siren",
     path |-> "ram:ApplicableHeaderTradeAgreement/ram:SellerTradeParty/ram:SpecifiedLegalOrganization/ram:ID"],
    [key |-> "seller_vat",
     path |-> "ram:ApplicableHeaderTradeAgreement/ram:SellerTradeParty/ram:SpecifiedTaxRegistration/ram:ID"],
    [key |-> "seller_street",
     path |-> "ram:ApplicableHeaderTradeAgreement/ram:SellerTradeParty/ram:PostalTradeAddress/ram:LineOne"],
    [key |-> "seller_city",
     path |-> "ram:ApplicableHeaderTradeAgreement/ram:SellerTradeParty/ram:PostalTradeAddress/ram:CityName"],
    [key |-> "seller_postal_code",
     path |-> "ram:ApplicableHeaderTradeAgreement/ram:SellerTradeParty/ram:PostalTradeAddress/ram:PostcodeCode"],
    [key |-> "seller_country",
     path |-> "ram:ApplicableHeaderTradeAgreement/ram:SellerTradeParty/ram:PostalTradeAddress/ram:CountryID"],
    [key |-> "seller_fe_address",
     path |-> "ram:ApplicableHeaderTradeAgreement/ram:SellerTradeParty/ram:URIUniversalCommunication/ram:URIID"],
    [key |-> "buyer_name",
     path |-> "ram:ApplicableHeaderTradeAgreement/ram:BuyerTradeParty/ram:Name"],
    [key |-> "buyer_siren",
     path |-> "ram:ApplicableHeaderTradeAgreement/ram:BuyerTradeParty/ram:SpecifiedLegalOrganization/ram:ID"],
    [key |-> "buyer_vat",
     path |-> "ram:ApplicableHeaderTradeAgreement/ram:BuyerTradeParty/ram:SpecifiedTaxRegistration/ram:ID"],
    [key |-> "buyer_street",
     path |-> "ram:ApplicableHeaderTradeAgreement/ram:BuyerTradeParty/ram:PostalTradeAddress/ram:LineOne"],
    [key |-> "buyer_city",
     path |-> "ram:ApplicableHeaderTradeAgreement/ram:BuyerTradeParty/ram:PostalTradeAddress/ram:CityName"],
    [key |-> "buyer_postal_code",
     path |-> "ram:ApplicableHeaderTradeAgreement/ram:BuyerTradeParty/ram:PostalTradeAddress/ram:PostcodeCode"],
    [key |-> "buyer_country",
     path |-> "ram:ApplicableHeaderTradeAgreement/ram:BuyerTradeParty/ram:PostalTradeAddress/ram:CountryID"],
    [key |-> "buyer_fe_address",
     path |-> "ram:ApplicableHeaderTradeAgreement/ram:BuyerTradeParty/ram:URIUniversalCommunication/ram:URIID"],
    [key |-> "billing_name",
     path |-> "ram:ApplicableHeaderTradeDelivery/ram:ShipToTradeParty/ram:Name"],
    [key |-> "billing_street",
     path |-> "ram:ApplicableHeaderTradeDelivery/ram:ShipToTradeParty/ram:PostalTradeAddress/ram:LineOne"],
    [key |-> "billing_city",
     path |-> "ram:ApplicableHeaderTradeDelivery/ram:ShipToTradeParty/ram:PostalTradeAddress/ram:CityName"],
    [key |-> "billing_postal_code",
     path |-> "ram:ApplicableHeaderTradeDelivery/ram:ShipToTradeParty/ram:PostalTradeAddress/ram:PostcodeCode"],
    [key |-> "billing_country",
     path |-> "ram:ApplicableHeaderTradeDelivery/ram:ShipToTradeParty/ram:PostalTradeAddress/ram:CountryID"]
>>

Keys == {DecodeMap[i].key : i \in 1..Len(DecodeMap)}

\* the element letter of the elements a path selects: the i-th path read by
\* extract_invoice_data selects the elements named by the i-th letter; a
\* path that is none of them selects nothing
TagOf(path) ==
    IF \E i \in 1..Len(DecodeMap) : DecodeMap[i].path = path
    THEN 96 + (CHOOSE i \in 1..Len(DecodeMap) : DecodeMap[i].path = path)
    ELSE 0

\* root.xpath(xpath, namespaces=NAMESPACES): positions, in document order
xpath(tree, path) == {i \in 1..Len(tree) : tree[i].tag = TagOf(path)}

\* get_text of extract_invoice_data, default ""
get_text(tree, path) ==
    LET elems == xpath(tree, path)
    IN  IF elems # {} /\ tree[Min(elems)].text # <<>>
        THEN tree[Min(elems)].text
        ELSE <<>>

extract_invoice_data(xml_bytes) ==
    LET p == fromstring(xml_bytes)
    IN  [ok |-> p.ok,
         data |-> [k \in Keys |->
                     get_text(p.tree,
                              DecodeMap[CHOOSE i \in 1..Len(DecodeMap) :
                                            DecodeMap[i].key = k].path)]]

\* dict.get(key, '')
get(data, key) == IF key \in DOMAIN data THEN data[key] ELSE <<>>

\* set_text without the "if not value: return" of lines 128-129
set_text_blanks(tree, path, value) ==
    LET elems == xpath(tree, path)
    IN  IF elems # {}
        THEN [tree EXCEPT ![Min(elems)].text = value]
        ELSE tree

\* set_text that assigns to every element of elems, not to elems[0] only
set_text_every(tree, path, value) ==
    IF value = <<>> THEN tree
    ELSE [n \in 1..Len(tree) |->
            IF n \in xpath(tree, path) THEN [tree[n] EXCEPT !.text = value]
            ELSE tree[n]]

\* set_text of update_invoice_xml
set_text(tree, path, value) ==
    IF value = <<>> THEN tree
    ELSE LET elems == xpath(tree, path)
         IN  IF elems # {}
             THEN [tree EXCEPT ![Min(elems)].text = value]
             ELSE tree

\* a str lxml accepts as element text: no NUL and no control character
\* other than tab, line feed and carriage return
XmlCompatible(value) ==
    \A i \in 1..Len(value) : value[i] >= 32 \/ value[i] \in {9, 10, 13}

\* set_text raises ValueError: the assignment of line 132 is reached with a
\* value lxml rejects
set_text_raises(tree, path, value) ==
    /\ value # <<>>
    /\ xpath(tree, path) # {}
    /\ ~XmlCompatible(value)

RECURSIVE ApplyEntriesSlip(_, _, _)
\* the set_text calls with line 136 passing data.get('invoice_number', '')
ApplyEntriesSlip(tree, data, i) ==
    IF i > Len(EncodeMap) THEN tree
    ELSE ApplyEntriesSlip(set_text(tree, EncodeMap[i].path,
                                   get(data, EncodeMap[IF i = 2 THEN 1 ELSE i].key)),
                          data, i + 1)

RECURSIVE ApplyEntries(_, _, _)
\* the set_text calls of lines 135-166, in their order
ApplyEntries(tree, data, i) ==
    IF i > Len(EncodeMap) THEN tree
    ELSE ApplyEntries(set_text(tree, EncodeMap[i].path,
                               get(data, EncodeMap[i].key)),
                      data, i + 1)

\* update_invoice_xml with a parser that recovers from a syntax error: what
\* does not parse is read as an empty root
update_invoice_xml_recover(xml_bytes, data) ==
    LET p == fromstring(xml_bytes)
    IN  [ok |-> TRUE,
         xml |-> tostring(ApplyEntries(p.tree, data, 1))]

\* ok is FALSE where fromstring (line 124) or a set_text call raises; no
\* set_text call changes which elements a path selects, so whether a call
\* raises is read off the parsed tree
update_invoice_xml(xml_bytes, data) ==
    LET p == fromstring(xml_bytes)
        done == /\ p.ok
                /\ \A i \in 1..Len(EncodeMap) :
                      ~set_text_raises(p.tree, EncodeMap[i].path,
                                       get(data, EncodeMap[i].key))
    IN  [ok |-> done,
         xml |-> IF done THEN tostring(ApplyEntries(p.tree, data, 1))
                 ELSE <<>>]

(***************************************************************************)
(* Inputs of the specifications.                                           *)
(***************************************************************************)
NameA == <<"a",".","x","m","l">>

NameB == <<"B",".","X","M","L">>

NameNotes == <<"n","o","t","e","s",".","t","x","t">>

NameFacturX == <<"f","a","c","t","u","r","-","x",".","x","m","l">>

NameZugferd == <<"Z","U","G","F","e","R","D","-","i","n","v","o","i","c","e",".","x","m","l">>

NameReport == <<"r","e","p","o","r","t",".","x","m","l">>

NameFacturePdf == <<"f","a","c","t","u","r","e",".","p","d","f">>

NameSamples == {NameA, NameB, NameNotes, NameFacturX, NameZugferd, NameReport,
                NameFacturePdf}

NameLists == SeqsUpTo(NameSamples, MaxNames)

\* the bytes of a byte order mark, white space, "<" and an undecodable byte
ByteSamples == {239, 187, 191, 32, 9, 13, 10, 60, 255}

ByteStrings == SeqsUpTo(ByteSamples, MaxBytes)

NoCall == [fn |-> "none"]

IdleSession ==
    /\ impl = "app"
    /\ original_pdf = Missing
    /\ xml_name_txt = Missing
    /\ facturx_xml = Missing
    /\ outputs = <<>>
    /\ now = 0
    /\ flash = [cat |-> "", msg |-> ""]
    /\ req = [op |-> "none"]
    /\ verify_xml = Missing
    /\ builds = <<>>
    /\ served = 0

(***************************************************************************)
(* The attachment selectors applied to every list of names.                *)
(***************************************************************************)
InitSelect ==
    /\ IdleSession
    /\ call \in {[fn |-> "select", names |-> ns, app |-> <<>>, editor |-> <<>>] :
                   ns \in NameLists}

RunExtractFirstXml ==
    /\ call.fn = "select"
    /\ call.app = <<>>
    /\ call' = [call EXCEPT !.app = <<extract_first_xml(call.names)>>]
    /\ UNCHANGED sessionVars

RunFindFacturxXml ==
    /\ call.fn = "select"
    /\ call.editor = <<>>
    /\ call' = [call EXCEPT !.editor = <<find_facturx_xml(call.names)>>]
    /\ UNCHANGED sessionVars

NextSelect == RunExtractFirstXml \/ RunFindFacturxXml

SpecSelect == InitSelect /\ [][NextSelect]_vars

(***************************************************************************)
(* clean_xml applied to every byte string, and to its own result.          *)
(***************************************************************************)
InitClean ==
    /\ IdleSession
    /\ call \in {[fn |-> "clean_xml", raw |-> x, once |-> <<>>, twice |-> <<>>] :
                   x \in ByteStrings}

RunCleanXml ==
    /\ call.fn = "clean_xml"
    /\ call.once = <<>>
    /\ call' = [call EXCEPT !.once = <<clean_xml(call.raw)>>]
    /\ UNCHANGED sessionVars

RunCleanXmlAgain ==
    /\ call.fn = "clean_xml"
    /\ call.once # <<>>
    /\ call.twice = <<>>
    /\ call' = [call EXCEPT !.twice = <<clean_xml(call.once[1])>>]
    /\ UNCHANGED sessionVars

NextClean == RunCleanXml \/ RunCleanXmlAgain

SpecClean == InitClean /\ [][NextClean]_vars

(***************************************************************************)
(* Claims about the attachment selectors (under SpecSelect).               *)
(***************************************************************************)
\* the results computed so far for call.names, by either program
SelectResults == {call.app[i] : i \in 1..Len(call.app)}
                 \cup {call.editor[i] : i \in 1..Len(call.editor)}

KeywordXmlIndices(names) == {i \in XmlIndices(names) : HasKeyword(names[i])}

\* C1: when some name ends in ".xml" and no ".xml" name holds "factur" or
\* "zugferd", each selector returns the first ".xml" name of the list.
C1_FallbackReturnsFirstXml ==
    (/\ call.fn = "select"
     /\ XmlIndices(call.names) # {}
     /\ KeywordXmlIndices(call.names) = {})
    => \A r \in SelectResults :
          r.ok /\ r.name = call.names[Min(XmlIndices(call.names))]

\* C2: when some name ends in ".xml" each selector returns a name ending in
\* ".xml", and when some ".xml" name holds "factur" or "zugferd" it returns
\* the first such name of the list, also when plain ".xml" names precede it.
C2_KeywordTier ==
    (call.fn = "select" /\ XmlIndices(call.names) # {})
    => \A r \in SelectResults :
          /\ r.ok
          /\ IsXmlName(r.name)
          /\ KeywordXmlIndices(call.names) # {}
             => \E i \in 1..Len(call.names) :
                   /\ r.name = call.names[i]
                   /\ r.idx = i
                   /\ IsXmlName(call.names[i]) /\ HasKeyword(call.names[i])
                   /\ \A j \in 1..(i - 1) :
                        ~(IsXmlName(call.names[j]) /\ HasKeyword(call.names[j]))

\* both selectors have answered for a list whose first ".xml" name is plain
\* and whose keyword ".xml" name comes later
C2_Witness ==
    /\ call.fn = "select"
    /\ call.app # <<>> /\ call.editor # <<>>
    /\ call.names = <<NameReport, NameZugferd, NameNotes>>
    /\ call.app[1].name = NameZugferd
    /\ call.editor[1].name = NameZugferd

(***************************************************************************)
(* Claims about clean_xml (under SpecClean).                               *)
(***************************************************************************)
StartsStripped(data) ==
    data # <<>> /\ (StartsAt(data, 1, BOM) \/ data[1] \in {32, 9, 13, 10})

\* C9: clean_xml(clean_xml(x)) = clean_xml(x) for every byte string x, and a
\* non-empty result starts with no byte order mark, space, tab, CR or LF.
C9_CleanIdempotent ==
    call.fn = "clean_xml"
    => /\ call.once # <<>> => ~StartsStripped(call.once[1])
       /\ call.twice # <<>> => call.twice[1] = call.once[1]

\* clean_xml ran twice on bytes holding an undecodable byte, and it removed
\* something and kept something
C9_Witness ==
    /\ call.fn = "clean_xml"
    /\ call.twice # <<>>
    /\ \E i \in 1..Len(call.raw) : call.raw[i] = 255
    /\ StartsStripped(call.raw)
    /\ call.once[1] # <<>>
    /\ Len(call.once[1]) < Len(call.raw)

(***************************************************************************)
(* extract_invoice_data and update_invoice_xml applied to documents whose  *)
(* varying elements are those of the first NumKeys field map entries and   *)
(* an element no path selects ("z"), with no text, "A" or "B".             *)
(***************************************************************************)
FocusKeys == {DecodeMap[i].key : i \in 1..NumKeys}

FocusTags == {96 + i : i \in 1..NumKeys}

ElementKinds == [tag : FocusTags \cup {122}, text : {<<>>, <<65>>, <<66>>}]

Bodies == SeqsUpTo(ElementKinds, MaxNodes)

\* one element with text for each of the other field map entries
RestElements ==
    [i \in 1..(Len(DecodeMap) - NumKeys) |->
        [tag |-> 96 + NumKeys + i, text |-> <<65>>]]

HasAllFocusTags(body) ==
    \A t \in FocusTags : \E i \in 1..Len(body) : body[i].tag = t

Trees == Bodies \cup {b \o RestElements : b \in {x \in Bodies : HasAllFocusTags(x)}}

XmlDocuments == {tostring(t) : t \in Trees}

\* what a form may submit for the varying keys: the key absent, "", "B" or
\* a NUL character
Records == UNION {[D -> {<<>>, <<66>>, <<0>>}] : D \in SUBSET FocusKeys}

InitCodec ==
    /\ IdleSession
    /\ call \in {[fn |-> "codec", xml |-> x, decoded |-> <<>>, data |-> <<>>,
                  encoded |-> <<>>, redecoded |-> <<>>] : x \in XmlDocuments}

\* decode(tree)
RunExtractInvoiceData ==
    /\ call.fn = "codec"
    /\ call.decoded = <<>>
    /\ call' = [call EXCEPT !.decoded = <<extract_invoice_data(call.xml)>>]
    /\ UNCHANGED sessionVars

\* encode(tree, decode(tree))
RunUpdateWithDecoded ==
    /\ call.fn = "codec"
    /\ call.decoded # <<>> /\ call.decoded[1].ok
    /\ call.encoded = <<>>
    /\ call' = [call EXCEPT
                  !.data = <<call.decoded[1].data>>,
                  !.encoded = <<update_invoice_xml(call.xml, call.decoded[1].data)>>]
    /\ UNCHANGED sessionVars

\* encode(tree, r)
RunUpdateWithRecord ==
    /\ call.fn = "codec"
    /\ call.decoded # <<>>
    /\ call.encoded = <<>>
    /\ \E r \in Records :
          call' = [call EXCEPT
                     !.data = <<r>>,
                     !.encoded = <<update_invoice_xml(call.xml, r)>>]
    /\ UNCHANGED sessionVars

\* decode(encode(tree, ...))
RunExtractFromUpdated ==
    /\ call.fn = "codec"
    /\ call.encoded # <<>> /\ call.encoded[1].ok
    /\ call.redecoded = <<>>
    /\ call' = [call EXCEPT
                  !.redecoded = <<extract_invoice_data(call.encoded[1].xml)>>]
    /\ UNCHANGED sessionVars

NextCodec ==
    \/ RunExtractInvoiceData
    \/ RunUpdateWithDecoded
    \/ RunUpdateWithRecord
    \/ RunExtractFromUpdated

SpecCodec == InitCodec /\ [][NextCodec]_vars

(***************************************************************************)
(* Claims about the codec (under SpecCodec).                               *)
(***************************************************************************)
AllPathsExist(xml_bytes) ==
    /\ fromstring(xml_bytes).ok
    /\ \A i \in 1..Len(DecodeMap) :
          xpath(fromstring(xml_bytes).tree, DecodeMap[i].path) # {}

\* the record given to update_invoice_xml was the one extract_invoice_data read
EncodedWithDecoded ==
    /\ call.decoded # <<>> /\ call.encoded # <<>>
    /\ call.data = <<call.decoded[1].data>>

\* C7: decode(encode(tree, decode(tree))) = decode(tree) for every parsed
\* tree, those in which every field map path selects an element included.
C7_RoundTrip ==
    (/\ call.fn = "codec"
     /\ EncodedWithDecoded
     /\ call.redecoded # <<>>)
    => /\ call.redecoded[1].ok
       /\ call.redecoded[1].data = call.decoded[1].data

\* the round trip ran on a document in which every path selects an element
\* and two keys hold different texts
C7_Witness ==
    /\ call.fn = "codec"
    /\ EncodedWithDecoded
    /\ call.redecoded # <<>>
    /\ AllPathsExist(call.xml)
    /\ call.decoded[1].data["invoice_number"] = <<65>>
    /\ call.decoded[1].data["invoice_date"] = <<66>>
    /\ call.decoded[1].data["billing_country"] = <<65>>

\* C8: a key whose value in the record is empty or absent decodes to the same
\* text after encode(tree, r) as before, whatever the record holds for the
\* other keys.
C8_EmptyKeepsText ==
    (/\ call.fn = "codec"
     /\ call.decoded # <<>> /\ call.encoded # <<>> /\ call.redecoded # <<>>)
    => \A k \in Keys :
          get(call.data[1], k) = <<>>
          => call.redecoded[1].data[k] = call.decoded[1].data[k]

\* a record with "" for a key whose element holds "A" and "B" for another
\* key, which changed the document
C8_Witness ==
    /\ call.fn = "codec"
    /\ call.decoded # <<>> /\ call.encoded # <<>> /\ call.redecoded # <<>>
    /\ "invoice_number" \in DOMAIN call.data[1]
    /\ call.data[1]["invoice_number"] = <<>>
    /\ get(call.data[1], "invoice_date") = <<66>>
    /\ call.decoded[1].data["invoice_number"] = <<65>>
    /\ call.decoded[1].data["invoice_date"] = <<65>>
    /\ call.redecoded[1].data["invoice_date"] = <<66>>
    /\ call.redecoded[1].data["invoice_number"] = <<65>>

(***************************************************************************)
(* The PDF as PyMuPDF shows it: embfile_names, embfile_get, embfile_del,   *)
(* embfile_add.                                                            *)
(***************************************************************************)
embfile_names(doc) == [i \in 1..Len(doc) |-> doc[i].name]

embfile_get(doc, i) == doc[i].data

\* the entries left after embfile_del of every index in to_del
DeleteEntries(doc, to_del) ==
    LET keep(i) == i \notin to_del
        F[i \in 0..Len(doc)] ==
            IF i = 0 THEN <<>>
            ELSE IF keep(i) THEN Append(F[i - 1], doc[i]) ELSE F[i - 1]
    IN  F[Len(doc)]

\* embfile_add raises ValueError when the name is already embedded
CanAdd(doc, name) == \A i \in 1..Len(doc) : doc[i].name # name

WhiteChars == {" ", "\t", "\n", "\r"}

\* str.strip()
strip(n) == DropTrailingIn(DropWhileIn(n, WhiteChars), WhiteChars)

\* app.py inject_xml: the PDF saved to out_path
inject_xml(pdf, xml_bytes, xml_name) ==
    LET emptied == DeleteEntries(pdf, 1..Len(pdf))
        target_name == IF xml_name # <<>> THEN xml_name ELSE DefaultName
    IN  [ok |-> CanAdd(emptied, target_name),
         pdf |-> Append(emptied, [name |-> target_name, data |-> xml_bytes])]

\* facturx_editor.py inject_facturx_xml: the PDF saved to out_path; ok is
\* FALSE where embfile_add raises, before doc.save
inject_facturx_xml(pdf, xml_bytes, xml_name) ==
    LET to_del == {i \in 1..Len(pdf) :
                     /\ endswith(lower(pdf[i].name), DotXml)
                     /\ \/ contains(lower(pdf[i].name), Factur)
                        \/ contains(lower(pdf[i].name), Zugferd)
                        \/ contains(lower(pdf[i].name), Invoice)}
        left == DeleteEntries(pdf, to_del)
        named == IF xml_name # <<>> THEN xml_name ELSE DefaultName
        target == IF strip(named) # <<>> THEN strip(named) ELSE DefaultName
    IN  [ok |-> CanAdd(left, target),
         pdf |-> Append(left, [name |-> target, data |-> xml_bytes])]

(***************************************************************************)
(* What a session is given: PDFs to upload, texts and forms to save.       *)
(***************************************************************************)
\* a document with an invoice number, as a producer serializes it
DataInvoice == tostring(<<[tag |-> 97, text |-> <<65>>]>>)

\* the same behind a byte order mark and a line feed
DataBomInvoice == BOM \o <<10>> \o DataInvoice

\* an unclosed root element
DataBroken == OpenRoot

Entry(n, d) == [name |-> n, data |-> d]

PdfSamples == {
    <<>>,
    <<Entry(NameNotes, DataBroken)>>,
    <<Entry(NameNotes, DataBroken), Entry(NameFacturX, DataInvoice)>>,
    <<Entry(NameA, DataInvoice), Entry(NameZugferd, DataBomInvoice)>>,
    <<Entry(NameA, DataBroken), Entry(NameB, DataInvoice)>>,
    <<Entry(NameFacturX, DataBroken)>>
}

\* texts of the edit form: "<R/>", a line feed before a declaration, an
\* unclosed root, a byte order mark and a space before "<R/>"
TextSamples == {
    EmptyRoot,
    <<10>> \o XmlDecl \o EmptyRoot,
    OpenRoot,
    <<65279, 32>> \o EmptyRoot
}

\* request.form of save_form: every key present, "" unless given
Form(given) == [k \in Keys |-> IF k \in DOMAIN given THEN given[k] ELSE <<>>]

\* nothing filled in, an invoice number "B", an invoice number that is a
\* NUL character
FormSamples == {Form(<<>>), Form([invoice_number |-> <<66>>]),
                Form([invoice_number |-> <<0>>])}

(***************************************************************************)
(* The session: one job directory served by one of the two programs.       *)
(***************************************************************************)
Init ==
    /\ impl \in {"app", "editor"}
    /\ original_pdf = Missing
    /\ xml_name_txt = Missing
    /\ facturx_xml = Missing
    /\ outputs = <<>>
    /\ now = 0
    /\ flash = [cat |-> "", msg |-> ""]
    /\ req = [op |-> "none"]
    /\ verify_xml = Missing
    /\ builds = <<>>
    /\ served = 0
    /\ call = NoCall

\* a request is served
Serve == served < MaxRequests /\ served' = served + 1

\* upload without a file, or with a name that does not end in ".pdf"
UploadRejected ==
    /\ Serve
    /\ \E m \in {"Aucun fichier", "Seuls les fichiers .pdf sont acceptes."} :
          flash' = [cat |-> "danger", msg |-> m]
    /\ req' = [op |-> "upload_rejected"]
    /\ UNCHANGED <<impl, original_pdf, xml_name_txt, facturx_xml, outputs, now,
                   verify_xml, builds, call>>

\* what app.py upload flashes for a PDF (lines 304-312)
AppUploadFlash(pdf) ==
    LET r == extract_first_xml(embfile_names(pdf))
    IN  IF ~r.ok THEN [cat |-> "danger", msg |-> r.err]
        ELSE [cat |-> "success", msg |-> "XML extrait avec succes."]

\* what facturx_editor.py upload flashes for a PDF (lines 153-164)
EditorUploadFlash(pdf) ==
    LET fx == find_facturx_xml(embfile_names(pdf))
    IN  IF ~fx.ok
        THEN [cat |-> "danger", msg |-> "Aucun XML Factur-X / ZUGFeRD detecte."]
        ELSE IF validate_xml(clean_xml(embfile_get(pdf, fx.idx)))
             THEN [cat |-> "success", msg |-> "XML extrait et valide"]
             ELSE [cat |-> "warning", msg |-> "XML extrait mais invalide"]

\* app.py upload, lines 302-313
AppUpload(pdf) ==
    /\ impl = "app"
    /\ Serve
    /\ req' = [op |-> "upload"]
    /\ original_pdf' = File(pdf)
    /\ flash' = AppUploadFlash(pdf)
    /\ LET r == extract_first_xml(embfile_names(pdf))
       IN  IF ~r.ok
           THEN UNCHANGED <<xml_name_txt, facturx_xml>>
           ELSE /\ xml_name_txt' = File(r.name)
                /\ facturx_xml' = File(embfile_get(pdf, r.idx))
    /\ UNCHANGED <<impl, outputs, now, verify_xml, builds, call>>

\* facturx_editor.py upload, lines 150-169
EditorUpload(pdf) ==
    /\ impl = "editor"
    /\ Serve
    /\ req' = [op |-> "upload"]
    /\ original_pdf' = File(pdf)
    /\ flash' = EditorUploadFlash(pdf)
    /\ LET fx == find_facturx_xml(embfile_names(pdf))
       IN  IF ~fx.ok
           THEN UNCHANGED <<xml_name_txt, facturx_xml>>
           ELSE /\ facturx_xml' = File(clean_xml(embfile_get(pdf, fx.idx)))
                /\ xml_name_txt' = File(fx.name)
    /\ UNCHANGED <<impl, outputs, now, verify_xml, builds, call>>

\* app.py save_xml, lines 340-353
AppSaveXml(content) ==
    /\ impl = "app"
    /\ Serve
    /\ req' = [op |-> "save", text |-> content]
    /\ IF ~fromstring(encode(content)).ok
       THEN /\ flash' = [cat |-> "danger", msg |-> "XML invalide"]
            /\ UNCHANGED facturx_xml
       ELSE /\ facturx_xml' = File(encode(content))
            /\ flash' = [cat |-> "success", msg |-> "XML enregistre."]
    /\ UNCHANGED <<impl, original_pdf, xml_name_txt, outputs, now, verify_xml,
                   builds, call>>

\* facturx_editor.py save_xml, lines 207-219
EditorSaveXml(text) ==
    /\ impl = "editor"
    /\ Serve
    /\ req' = [op |-> "save", text |-> text]
    /\ LET content == DropWhileIn(text, StripChars)
       IN  IF ~validate_xml(encode(content))
           THEN /\ flash' = [cat |-> "danger", msg |-> "XML invalide"]
                /\ UNCHANGED facturx_xml
           ELSE /\ facturx_xml' = File(encode(content))
                /\ flash' = [cat |-> "success",
                             msg |-> "XML enregistre et valide"]
    /\ UNCHANGED <<impl, original_pdf, xml_name_txt, outputs, now, verify_xml,
                   builds, call>>

\* app.py save_form, lines 375-419
AppSaveForm(form_data) ==
    /\ impl = "app"
    /\ Serve
    /\ req' = [op |-> "save_form", form |-> form_data]
    /\ IF ~Exists(facturx_xml)
       THEN /\ flash' = [cat |-> "danger", msg |-> "Aucun XML charge pour ce job."]
            /\ UNCHANGED facturx_xml
       ELSE LET updated == update_invoice_xml(Content(facturx_xml), form_data)
            IN  IF updated.ok
                THEN /\ facturx_xml' = File(updated.xml)
                     /\ flash' = [cat |-> "success",
                                  msg |-> "Donnees de la facture enregistrees."]
                ELSE /\ flash' = [cat |-> "danger",
                                  msg |-> "Erreur lors de la mise a jour du XML"]
                     /\ UNCHANGED facturx_xml
    /\ UNCHANGED <<impl, original_pdf, xml_name_txt, outputs, now, verify_xml,
                   builds, call>>

\* the file written at out_path: a file of that name is replaced
WriteOutput(ts, pdf) ==
    [t \in (DOMAIN outputs) \cup {ts} |-> IF t = ts THEN pdf ELSE outputs[t]]

PersistedName == IF Exists(xml_name_txt) THEN Content(xml_name_txt) ELSE DefaultName

\* out_path of both build handlers, updated_<%Y%m%d_%H%M%S>.pdf, for the
\* second datetime.now() falls in
OutPath(clock) == clock

\* app.py build, lines 422-451
AppBuild(clock) ==
    /\ impl = "app"
    /\ Serve
    /\ IF ~(Exists(original_pdf) /\ Exists(facturx_xml))
       THEN /\ req' = [op |-> "build", out |-> <<>>]
            /\ flash' = [cat |-> "danger", msg |-> "Fichiers manquants."]
            /\ UNCHANGED <<outputs, verify_xml, builds, now>>
       ELSE LET ts == OutPath(clock)
                made == inject_xml(Content(original_pdf), Content(facturx_xml),
                                   PersistedName)
                xmls == XmlIndices(embfile_names(made.pdf))
            IN  /\ req' = [op |-> "build", out |-> <<ts>>]
                /\ outputs' = WriteOutput(ts, made.pdf)
                /\ verify_xml' = IF xmls # {}
                                 THEN File(embfile_get(made.pdf, Min(xmls)))
                                 ELSE verify_xml
                /\ builds' = Append(builds, [out |-> ts, pdf |-> made.pdf])
                /\ flash' = [cat |-> "file", msg |-> "invoice.updated.pdf"]
                /\ now' = clock
    /\ UNCHANGED <<impl, original_pdf, xml_name_txt, facturx_xml, call>>

\* facturx_editor.py build, lines 232-251
EditorBuild(clock) ==
    /\ impl = "editor"
    /\ Serve
    /\ IF ~Exists(original_pdf) \/ ~Exists(facturx_xml)
       THEN /\ req' = [op |-> "build", out |-> <<>>]
            /\ flash' = [cat |-> "danger", msg |-> "Fichiers manquants."]
            /\ UNCHANGED <<outputs, builds, now>>
       ELSE IF ~validate_xml(Content(facturx_xml))
       THEN /\ req' = [op |-> "build", out |-> <<>>]
            /\ flash' = [cat |-> "danger", msg |-> "XML invalide"]
            /\ UNCHANGED <<outputs, builds, now>>
       ELSE LET ts == OutPath(clock)
                made == inject_facturx_xml(Content(original_pdf),
                                           Content(facturx_xml), PersistedName)
            IN  IF ~made.ok
                THEN /\ req' = [op |-> "build", out |-> <<>>]
                     /\ flash' = [cat |-> "error", msg |-> "ValueError"]
                     /\ UNCHANGED <<outputs, builds, now>>
                ELSE /\ req' = [op |-> "build", out |-> <<ts>>]
                     /\ outputs' = WriteOutput(ts, made.pdf)
                     /\ builds' = Append(builds, [out |-> ts, pdf |-> made.pdf])
                     /\ flash' = [cat |-> "success",
                                  msg |-> "Nouveau PDF genere avec succes"]
                     /\ now' = clock
    /\ UNCHANGED <<impl, original_pdf, xml_name_txt, facturx_xml,
                   verify_xml, call>>

Next ==
    \/ UploadRejected
    \/ \E pdf \in PdfSamples : AppUpload(pdf)
    \/ \E pdf \in PdfSamples : EditorUpload(pdf)
    \/ \E content \in TextSamples : AppSaveXml(content)
    \/ \E text \in TextSamples : EditorSaveXml(text)
    \/ \E form_data \in FormSamples : AppSaveForm(form_data)
    \/ \E clock \in now..MaxClock : AppBuild(clock)
    \/ \E clock \in now..MaxClock : EditorBuild(clock)

Spec == Init /\ [][Next]_vars

(***************************************************************************)
(* Claims about the session (under Spec).                                  *)
(***************************************************************************)
WellFormed(f) == fromstring(Content(f)).ok

\* the last request was a build that wrote an output PDF
BuildSucceeded == req.op = "build" /\ req.out # <<>>

\* C3: the PDF a successful build writes holds the original PDF's entries
\* whose names do not end in ".xml", unchanged, and one more entry: the
\* working document under the persisted name (or "factur-x.xml"); no ".xml"
\* entry of the original remains.
C3_BuildResult ==
    BuildSucceeded
    => LET out == outputs[req.out[1]]
           orig == Content(original_pdf)
           kept == DeleteEntries(orig, XmlIndices(embfile_names(orig)))
           new == [name |-> PersistedName, data |-> Content(facturx_xml)]
       IN  /\ Len(out) = Len(kept) + 1
           /\ \A i \in 1..Len(kept) : \E j \in 1..Len(out) : out[j] = kept[i]
           /\ \E j \in 1..Len(out) : out[j] = new

\* C4: two successful builds of a session never get the same output name,
\* and the file each wrote still holds what it wrote.
C4_UniqueOutputs ==
    /\ \A i, j \in 1..Len(builds) : i < j => builds[i].out # builds[j].out
    /\ \A i \in 1..Len(builds) : outputs[builds[i].out] = builds[i].pdf

\* C5 as stated: the persisted working document is always well-formed.
C5_AlwaysWellFormed == Exists(facturx_xml) => WellFormed(facturx_xml)

\* C5 as amended: the working document changes only in an upload, which
\* persists the selected attachment's bytes whether they parse or not, or in
\* a save or save_form, which persist well-formed bytes only; build leaves
\* it alone.
C5_OnlySavesValidate ==
    [][facturx_xml' # facturx_xml
       => \/ req'.op = "upload"
          \/ req'.op \in {"save", "save_form"} /\ WellFormed(facturx_xml')]_vars

\* a save replaced a broken document, which an upload had persisted, by a
\* well-formed one
C5_Witness ==
    /\ req.op = "save"
    /\ flash.cat = "success"
    /\ original_pdf = File(<<Entry(NameFacturX, DataBroken)>>)
    /\ xml_name_txt = File(NameFacturX)
    /\ Exists(facturx_xml) /\ WellFormed(facturx_xml)

\* C6: save(rawText) strips the leading BOM, space, tab, CR and LF and
\* validates the rest; when that fails the working document is left as it was
\* and an error is reported, when it succeeds the working document becomes
\* the stripped text.
C6_SaveAllOrNothing ==
    [][(served' # served /\ req'.op = "save")
       => LET sanitized == encode(DropWhileIn(req'.text, StripChars))
          IN  IF fromstring(sanitized).ok
              THEN facturx_xml' = File(sanitized) /\ flash'.cat = "success"
              ELSE facturx_xml' = facturx_xml /\ flash'.cat = "danger"]_vars

UploadFlash(program, pdf) ==
    IF program = "app" THEN AppUploadFlash(pdf) ELSE EditorUploadFlash(pdf)

\* C10: what upload reports for a PDF without embedded files differs from
\* what the same program reports for a PDF with embedded files none of which
\* ends in ".xml".
C10_DistinctSelectionFailures ==
    (req.op = "upload" /\ original_pdf = File(<<>>))
    => \A pdf \in PdfSamples :
          (pdf # <<>> /\ XmlIndices(embfile_names(pdf)) = {})
          => flash # UploadFlash(impl, pdf)

\* the last request was served by save_form
SaveFormServed == served' # served /\ req'.op = "save_form"

\* a set_text call of update_invoice_xml raises on the tree for the record:
\* a non-empty value lxml rejects meets an element its path selects
EncodingRaises(tree, record) ==
    \E i \in 1..Len(EncodeMap) :
       LET value == get(record, EncodeMap[i].key)
       IN  /\ value # <<>>
           /\ ~XmlCompatible(value)
           /\ xpath(tree, EncodeMap[i].path) # {}

\* C11: when the working document does not parse, or encoding raises,
\* save_form reports an error and leaves the working document, the original
\* PDF, the selected name and the outputs as they were; when it parses and
\* encoding does not raise, the working document becomes the serialization
\* of encode(tree, record), which parses.
C11_SaveFormFatalOnUnparsable ==
    [][(SaveFormServed /\ Exists(facturx_xml))
       => LET p == fromstring(Content(facturx_xml))
          IN  /\ UNCHANGED <<original_pdf, xml_name_txt, outputs>>
              /\ IF ~p.ok \/ EncodingRaises(p.tree, req'.form)
                 THEN /\ facturx_xml' = facturx_xml
                      /\ flash'.cat = "danger"
                 ELSE /\ facturx_xml' =
                            File(tostring(ApplyEntries(p.tree, req'.form, 1)))
                      /\ WellFormed(facturx_xml')
                      /\ flash'.cat = "success"]_vars

\* save_form met an unclosed root, which an upload had persisted, reported
\* an error and left it in place
C11_Witness ==
    /\ req.op = "save_form"
    /\ req.form["invoice_number"] = <<66>>
    /\ flash.cat = "danger"
    /\ facturx_xml = File(DataBroken)

Selection(program, pdf) ==
    LET r == extract_first_xml(embfile_names(pdf))
        fx == find_facturx_xml(embfile_names(pdf))
    IN  IF program = "app"
        THEN [ok |-> r.ok, name |-> r.name, idx |-> r.idx]
        ELSE [ok |-> fx.ok, name |-> fx.name, idx |-> fx.idx]

\* C13: after an upload whose selection succeeded, in either program, the
\* working document is the selected attachment's bytes without their
\* leading BOM and white space, whether they parse or not, and the selected
\* name is persisted.
C13_UploadSanitizes ==
    (/\ req.op = "upload"
     /\ Selection(impl, Content(original_pdf)).ok)
    => LET pdf == Content(original_pdf)
           sel == Selection(impl, pdf)
       IN  /\ facturx_xml = File(clean_xml(embfile_get(pdf, sel.idx)))
           /\ xml_name_txt = File(sel.name)

\* C14: the persisted selected name and working document were derived from
\* the persisted original PDF: whenever a selected name is persisted, the
\* original PDF is persisted too and the program's selector selects an
\* attachment of that name in it.
C14_NoMixing ==
    Exists(xml_name_txt)
    => /\ Exists(original_pdf)
       /\ Selection(impl, Content(original_pdf)).ok
       /\ Selection(impl, Content(original_pdf)).name = Content(xml_name_txt)

\* the last request was served by build
BuildServed == served' # served /\ req'.op = "build"

\* C15: in facturx_editor.py, build writes an output PDF only when the
\* working document parses; when the working document does not parse, build
\* writes no output, reports an error and leaves the original PDF, the
\* selected name and the working document as they were; and the entry build
\* added to any output PDF written so far holds well-formed XML.
C15_EditorBuildGate ==
    [][(impl = "editor" /\ BuildServed)
       => /\ outputs' # outputs
             => Exists(facturx_xml) /\ WellFormed(facturx_xml)
          /\ (Exists(facturx_xml) /\ ~WellFormed(facturx_xml))
             => /\ outputs' = outputs
                /\ flash'.cat = "danger"
          /\ UNCHANGED <<original_pdf, xml_name_txt, facturx_xml>>
          /\ \A ts \in DOMAIN outputs' :
                LET out == outputs'[ts]
                IN  fromstring(out[Len(out)].data).ok]_vars

\* facturx_editor.py build met an unclosed root, which an upload had
\* persisted, wrote nothing and reported it
C15_Witness ==
    /\ impl = "editor"
    /\ req.op = "build"
    /\ req.out = <<>>
    /\ flash = [cat |-> "danger", msg |-> "XML invalide"]
    /\ Exists(original_pdf)
    /\ facturx_xml = File(DataBroken)
    /\ outputs = <<>>

\* C16: a working document is persisted only after an upload of the session
\* selected an attachment.  xml_name.txt is written by the uploads whose
\* selection succeeds, by nothing else, and is never removed: it exists
\* exactly when such an upload was served.
C16_WorkingDocAfterUpload == Exists(facturx_xml) => Exists(xml_name_txt)

====
